---- MODULE Spec2Model ----
(***************************************************************************)
(* A model of the Luxe Perfume API (src/main.py, src/schemas.py): the      *)
(* three collections of the document store, the request handlers that      *)
(* read and write them, and the identifier and filter conversions they     *)
(* rely on.  Every handler is one atomic action, except in SpecRace, where *)
(* add_review is split at its three store calls.                           *)
(*                                                                         *)
(* Strings that the code only compares for equality (emails, tags, names   *)
(* of people) are TLA+ strings.  Strings that the code parses (identifiers *)
(* handed to ObjectId, names matched by $regex) are sequences of           *)
(* one-character strings, so that the parse is computed.                   *)
(***************************************************************************)
EXTENDS Integers, Sequences, FiniteSets, TLC

VARIABLES
    fragrance,    \* the "fragrance" collection, in store order
    review,       \* the "review" collection, in store order
    userprofile,  \* the "userprofile" collection, in store order
    nextId,       \* how many identifiers the store has generated, plus one
    resp,         \* the last response sent
    pc,           \* SpecRace: where each in-flight add_review request stands
    ratings,      \* SpecRace: each request's local list "ratings"
    target,       \* SpecRace: each request's review.fragrance_id
    calls,        \* history: the add_review calls made and how each ended
    tog           \* history: the toggle_favorite calls made back to back

vars == <<fragrance, review, userprofile, nextId, resp, pc, ratings, target, calls, tog>>

store == <<fragrance, review, userprofile, nextId>>
inflight == <<pc, ratings, target>>

None == "None"

\* ------------------------------------------------------------------ bounds
\* Length of the hexadecimal form of an ObjectId (24 in bson, scaled down).
OidLen == 2
\* Most fragrance documents the catalog models hold.
MaxFrag == 2
\* Most review documents the review model holds.
MaxReviews == 2
\* Longest favorites list a caller submits to upsert_user.
MaxFavLen == 2

\* --------------------------------------------------------- sequence helpers
Range(s) == {s[i] : i \in 1..Len(s)}

RECURSIVE SumSeq(_)
SumSeq(s) == IF s = <<>> THEN 0 ELSE Head(s) + SumSeq(Tail(s))

\* ------------------------------------------------------------- identifiers
HexLower == {"0", "1", "2", "3", "4", "5", "6", "7", "8", "9",
             "a", "b", "c", "d", "e", "f"}
HexUpper == {"A", "B", "C", "D", "E", "F"}

LowerChar(c) ==
    CASE c = "A" -> "a" [] c = "B" -> "b" [] c = "C" -> "c"
      [] c = "D" -> "d" [] c = "E" -> "e" [] c = "F" -> "f" [] OTHER -> c

UpperChar(c) ==
    CASE c = "a" -> "A" [] c = "b" -> "B" [] c = "c" -> "C"
      [] c = "d" -> "D" [] c = "e" -> "E" [] c = "f" -> "F" [] OTHER -> c

Lower(s) == [i \in 1..Len(s) |-> LowerChar(s[i])]
Upper(s) == [i \in 1..Len(s) |-> UpperChar(s[i])]

\* ObjectId(id_str) accepts a string of exactly OidLen hexadecimal digits of
\* either case (bytes.fromhex); its value is the bytes, written here in
\* lower case, which is also what str() of it gives.
ValidOid(s) == Len(s) = OidLen /\ \A i \in 1..Len(s) : s[i] \in HexLower \cup HexUpper

\* oid(id_str): [ok |-> FALSE] stands for HTTPException(400, "Invalid id").
oid(id_str) ==
    IF ValidOid(id_str) THEN [ok |-> TRUE, v |-> Lower(id_str)]
    ELSE [ok |-> FALSE, v |-> <<>>]

\* cursor.limit(n): limit 0 is "no limit" in the store.
Limit(docs, n) == IF n = 0 \/ Len(docs) <= n THEN docs ELSE SubSeq(docs, 1, n)

\* ---------------------------------------------------------- store queries
\* A filter is a function from field names to conditions, as the handlers
\* build it: [kind |-> "eq" | "regex" | "in" | "ne", v |-> operand].
\* An optional list field is [null |-> BOOLEAN, items |-> sequence].
ListFields == {"families", "occasion", "season"}

Items(doc, field) ==
    IF field = "families" THEN Range(doc[field])
    ELSE IF doc[field].null THEN {} ELSE Range(doc[field].items)

\* re.search(pattern, text) with the "i" option, for patterns made of
\* literal characters and the wildcard ".".
RegexSearchI(pattern, text) ==
    \E k \in 0..(Len(text) - Len(pattern)) :
        \A i \in 1..Len(pattern) :
            pattern[i] = "." \/ LowerChar(pattern[i]) = LowerChar(text[k + i])

Cond(doc, field, c) ==
    CASE c.kind = "eq" ->
            IF field \in ListFields THEN c.v \in Items(doc, field)
            ELSE doc[field] = c.v
      [] c.kind = "regex" -> RegexSearchI(c.v, doc[field])
      [] c.kind = "in" -> Items(doc, field) \cap Range(c.v) # {}
      [] c.kind = "ne" -> doc[field] # c.v

Matches(doc, filt) == \A f \in DOMAIN filt : Cond(doc, f, filt[f])

\* collection.find(filter), in store order.
find(coll, filt) == SelectSeq(coll, LAMBDA d : Matches(d, filt))

\* collection.find_one(filter): <<>> for None, else <<the first match>>.
find_one(coll, filt) == Limit(find(coll, filt), 1)

\* collection.update_one(filter, {"$set": fields}): the first match only.
update_one(coll, filt, fields) ==
    LET hits == {i \in 1..Len(coll) : Matches(coll[i], filt)} IN
    IF hits = {} THEN coll
    ELSE LET k == CHOOSE i \in hits : \A j \in hits : i <= j IN
         [coll EXCEPT ![k] = fields @@ coll[k]]

Eq(v) == [kind |-> "eq", v |-> v]

\* The identifier the store generates for the n-th inserted document.
GenLetters == <<"a", "b", "c", "d", "e", "f">>

NewObjectId ==
    [i \in 1..OidLen |->
        IF i = 1 THEN GenLetters[((nextId - 1) \div 6) + 1]
        ELSE GenLetters[((nextId - 1) % 6) + 1]]

\* database.create_document(collection, data): insert, with a generated _id;
\* the caller receives str(_id).
create_document(coll, data) == Append(coll, [_id |-> NewObjectId] @@ data)

\* database.get_documents(collection, filter, limit); limit 0 stands for None.
get_documents(coll, filt, limit) == Limit(find(coll, filt), limit)

\* serialize(doc): _id is replaced by id = str(_id).
serialize(doc) ==
    [k \in (DOMAIN doc \ {"_id"}) \cup {"id"} |->
        IF k = "id" THEN doc._id ELSE doc[k]]

SerializeAll(docs) == [i \in 1..Len(docs) |-> serialize(docs[i])]

\* ------------------------------------------------------------------- state
Init ==
    /\ fragrance = <<>>
    /\ review = <<>>
    /\ userprofile = <<>>
    /\ nextId = 1
    /\ resp = [op |-> "none", status |-> 200]
    /\ pc = [p \in {1, 2} |-> "idle"]
    /\ ratings = [p \in {1, 2} |-> <<>>]
    /\ target = [p \in {1, 2} |-> <<>>]
    /\ calls = <<>>
    /\ tog = [n |-> 0]

\* ----------------------------------------------------------------- catalog
\* A Fragrance document keeps the fields the handlers read: name, families,
\* occasion, season, gender, featured, new_arrival and the two rating
\* fields.  rating_average is the fraction <<numerator, denominator>> in
\* lowest terms.
RECURSIVE Gcd(_, _)
Gcd(a, b) == IF b = 0 THEN a ELSE Gcd(b, a % b)

Fraction(num, den) == LET g == Gcd(num, den) IN <<num \div g, den \div g>>

NoList == [null |-> TRUE, items |-> <<>>]
SomeList(items) == [null |-> FALSE, items |-> items]

\* Fragrance bodies a caller posts, after the samples of seed(): every
\* rating field left at its default.
Samples ==
    { [name |-> <<"a", "b">>, families |-> <<"oriental", "woody">>,
       occasion |-> SomeList(<<"evening", "date">>), season |-> SomeList(<<"fall">>),
       gender |-> "unisex", featured |-> TRUE, new_arrival |-> TRUE,
       rating_average |-> <<0, 1>>, rating_count |-> 0],
      [name |-> <<"B", "c">>, families |-> <<"floral", "citrus">>,
       occasion |-> SomeList(<<"office">>), season |-> SomeList(<<"summer">>),
       gender |-> "female", featured |-> TRUE, new_arrival |-> FALSE,
       rating_average |-> <<0, 1>>, rating_count |-> 0],
      [name |-> <<"c", "d">>, families |-> <<"citrus">>,
       occasion |-> NoList, season |-> SomeList(<<"summer">>),
       gender |-> "male", featured |-> FALSE, new_arrival |-> TRUE,
       rating_average |-> <<0, 1>>, rating_count |-> 0],
      [name |-> <<"e">>, families |-> <<>>,
       occasion |-> NoList, season |-> NoList,
       gender |-> None, featured |-> FALSE, new_arrival |-> FALSE,
       rating_average |-> <<0, 1>>, rating_count |-> 0] }

create_fragrance(body) ==
    /\ fragrance' = create_document(fragrance, body)
    /\ nextId' = nextId + 1
    /\ resp' = [op |-> "create_fragrance", status |-> 200, id |-> NewObjectId]
    /\ UNCHANGED <<review, userprofile>>

\* An optional query parameter.
Absent == [set |-> FALSE, v |-> None]
AbsentBool == [set |-> FALSE, v |-> FALSE]
Given(v) == [set |-> TRUE, v |-> v]

\* Python truthiness of an optional string: None and "" are both false.
Truthy(o) == o.set /\ o.v # ""

\* line 106: the text of q is handed to $regex as it is.
name_filter(q) == [kind |-> "regex", v |-> q]

\* lines 104-118; q is a sequence of characters, <<>> when absent or empty.
list_filter(o) ==
    [f \in {g \in {"name"} : o.q # <<>>}
        \cup {g \in {"families"} : Truthy(o.family)}
        \cup {g \in {"occasion"} : Truthy(o.occasion)}
        \cup {g \in {"season"} : Truthy(o.season)}
        \cup {g \in {"gender"} : Truthy(o.gender)}
        \cup {g \in {"featured"} : o.featured.set}
        \cup {g \in {"new_arrival"} : o.new_arrival.set} |->
        CASE f = "name" -> name_filter(o.q)
          [] f = "families" -> Eq(o.family.v)
          [] f = "occasion" -> Eq(o.occasion.v)
          [] f = "season" -> Eq(o.season.v)
          [] f = "gender" -> Eq(o.gender.v)
          [] f = "featured" -> Eq(o.featured.v)
          [] f = "new_arrival" -> Eq(o.new_arrival.v)]

list_fragrances(o) ==
    LET docs == get_documents(fragrance, list_filter(o), o.limit) IN
    /\ resp' = [op |-> "list_fragrances", status |-> 200, opts |-> o,
                body |-> SerializeAll(docs)]
    /\ UNCHANGED store

similar_query_all(doc) == [families |-> [kind |-> "in", v |-> doc.families]]

\* line 138
similar_query(doc) ==
    [families |-> [kind |-> "in", v |-> doc.families],
     _id |-> [kind |-> "ne", v |-> doc._id]]

similar_fragrances(fid, limit) ==
    LET o == oid(fid)
        doc == find_one(fragrance, [_id |-> Eq(o.v)]) IN
    /\ resp' =
          IF ~o.ok THEN [op |-> "similar_fragrances", status |-> 400, fid |-> fid]
          ELSE IF doc = <<>>
               THEN [op |-> "similar_fragrances", status |-> 404, fid |-> fid]
               ELSE [op |-> "similar_fragrances", status |-> 200, fid |-> fid,
                     body |-> SerializeAll(
                                 Limit(find(fragrance, similar_query(doc[1])), limit))]
    /\ UNCHANGED store

\* Identifier texts a caller sends: the identifiers the store has handed out
\* for fragrances, as given and in upper case, one well-formed identifier
\* the store never generates, one of the right length that is not
\* hexadecimal, and one that is too short.
AbsentId == [i \in 1..OidLen |-> "0"]
NonHexId == [i \in 1..OidLen |-> "z"]
ShortId == [i \in 1..(OidLen - 1) |-> "a"]

IdTexts ==
    {fragrance[i]._id : i \in 1..Len(fragrance)}
        \cup {Upper(fragrance[i]._id) : i \in 1..Len(fragrance)}
        \cup {AbsentId, NonHexId, ShortId}

ListOptions ==
    [q : {<<>>, <<"B">>, <<".">>},
     family : {Absent, Given("citrus")},
     occasion : {Absent, Given("date")},
     season : {Absent, Given("summer")},
     gender : {Absent, Given("male")},
     featured : {AbsentBool, Given(FALSE)},
     new_arrival : {AbsentBool, Given(TRUE)},
     limit : {1, 24}]

CreateFragrance ==
    /\ Len(fragrance) < MaxFrag
    /\ \E body \in Samples : create_fragrance(body)
    /\ UNCHANGED <<inflight, calls, tog>>

ListFragrances ==
    /\ \E o \in ListOptions : list_fragrances(o)
    /\ UNCHANGED <<inflight, calls, tog>>

SimilarFragrances ==
    /\ \E fid \in IdTexts, limit \in {0, 1, 8} : similar_fragrances(fid, limit)
    /\ UNCHANGED <<inflight, calls, tog>>

NextCatalog == CreateFragrance \/ ListFragrances

SpecCatalog == Init /\ [][NextCatalog]_vars

NextSimilar == CreateFragrance \/ SimilarFragrances

SpecSimilar == Init /\ [][NextSimilar]_vars

\* C7: every fragrance similar_fragrances(id) returns has an id other than
\* the source's and shares a families tag with the source; a source without
\* families gets an empty result.
C7_SimilarExcludesSource ==
    (resp.op = "similar_fragrances" /\ resp.status = 200) =>
        \A i \in 1..Len(fragrance) :
            fragrance[i]._id = Lower(resp.fid) =>
                /\ \A k \in 1..Len(resp.body) :
                      /\ resp.body[k].id # fragrance[i]._id
                      /\ Range(resp.body[k].families) \cap Range(fragrance[i].families) # {}
                /\ fragrance[i].families = <<>> => resp.body = <<>>

\* similar_fragrances answered a non-empty list for a source that itself
\* matches its own families.
C7_Witness ==
    /\ resp.op = "similar_fragrances"
    /\ resp.status = 200
    /\ resp.body # <<>>
    /\ \E i \in 1..Len(fragrance) :
          fragrance[i]._id = Lower(resp.fid) /\ fragrance[i].families # <<>>

\* Case-insensitive substring.
SubstringI(part, text) ==
    \E k \in 0..(Len(text) - Len(part)) :
        \A i \in 1..Len(part) : LowerChar(part[i]) = LowerChar(text[k + i])

ListHas(l, v) == ~l.null /\ v \in Range(l.items)

\* C9: every fragrance list_fragrances returns satisfies every option that
\* was provided: q as a case-insensitive substring of name, family, occasion
\* and season as an element of the list field, gender, featured and
\* new_arrival as the field's value.
C9_ListSatisfiesEveryOption ==
    resp.op = "list_fragrances" =>
        \A k \in 1..Len(resp.body) :
            LET d == resp.body[k]
                o == resp.opts IN
            /\ o.q # <<>> => SubstringI(o.q, d.name)
            /\ o.family.set => o.family.v \in Range(d.families)
            /\ o.occasion.set => ListHas(d.occasion, o.occasion.v)
            /\ o.season.set => ListHas(d.season, o.season.v)
            /\ o.gender.set => d.gender = o.gender.v
            /\ o.featured.set => d.featured = o.featured.v
            /\ o.new_arrival.set => d.new_arrival = o.new_arrival.v

\* ----------------------------------------------------------------- reviews
\* A Review document keeps fragrance_id (the text the caller sent) and
\* rating.  Review.rating is an integer with ge = 1 and le = 5.
RatingMin == 1
RatingMax == 5

ValidReview(body) == body.rating >= RatingMin /\ body.rating <= RatingMax

\* lines 152-153: the ratings of the reviews whose fragrance_id is fr_id.
ratings_of(coll, fr_id) ==
    LET found == find(coll, [fragrance_id |-> Eq(fr_id)]) IN
    [i \in 1..Len(found) |-> found[i].rating]

\* lines 155-156: the $set of the aggregate.
aggregate(rs) ==
    [rating_average |-> Fraction(SumSeq(rs), Len(rs)), rating_count |-> Len(rs)]

add_review_checks_id_first(body) ==
    LET rs == ratings_of(create_document(review, body), body.fragrance_id)
        o == oid(body.fragrance_id) IN
    IF ~ValidReview(body)
    THEN /\ resp' = [op |-> "add_review", status |-> 422,
                     fragrance_id |-> body.fragrance_id]
         /\ UNCHANGED store
    ELSE IF ~o.ok
    THEN /\ resp' = [op |-> "add_review", status |-> 400,
                     fragrance_id |-> body.fragrance_id]
         /\ UNCHANGED store
    ELSE /\ review' = create_document(review, body)
         /\ nextId' = nextId + 1
         /\ fragrance' = update_one(fragrance, [_id |-> Eq(o.v)], aggregate(rs))
         /\ resp' = [op |-> "add_review", status |-> 200,
                     fragrance_id |-> body.fragrance_id, id |-> NewObjectId]
         /\ UNCHANGED userprofile

\* A body the schema rejects never reaches the handler (422).  Otherwise the
\* review is inserted, every review of that fragrance_id is read back, and
\* the aggregate is written to the fragrance the parsed identifier names;
\* the parse is the last thing to happen and may fail (400).
add_review(body) ==
    LET rs == ratings_of(create_document(review, body), body.fragrance_id)
        o == oid(body.fragrance_id) IN
    IF ~ValidReview(body)
    THEN /\ resp' = [op |-> "add_review", status |-> 422,
                     fragrance_id |-> body.fragrance_id]
         /\ UNCHANGED store
    ELSE /\ review' = create_document(review, body)
         /\ nextId' = nextId + 1
         /\ IF rs # <<>> /\ o.ok
            THEN fragrance' = update_one(fragrance, [_id |-> Eq(o.v)], aggregate(rs))
            ELSE UNCHANGED fragrance
         /\ resp' = IF rs # <<>> /\ ~o.ok
                    THEN [op |-> "add_review", status |-> 400,
                          fragrance_id |-> body.fragrance_id]
                    ELSE [op |-> "add_review", status |-> 200,
                          fragrance_id |-> body.fragrance_id, id |-> NewObjectId]
         /\ UNCHANGED userprofile

reviews_filter_none(fragrance_id) == <<>>

\* line 162
reviews_filter(fragrance_id) == [fragrance_id |-> Eq(fragrance_id)]

get_reviews(fragrance_id) ==
    /\ resp' = [op |-> "get_reviews", status |-> 200, fragrance_id |-> fragrance_id,
                body |-> SerializeAll(
                            get_documents(review, reviews_filter(fragrance_id), 0))]
    /\ UNCHANGED store

\* Fragrance bodies posted in the review model: one that leaves the rating
\* fields at their defaults and one that sets them (4.5 over 3 reviews).
Plain ==
    [name |-> <<"e">>, families |-> <<>>, occasion |-> NoList, season |-> NoList,
     gender |-> None, featured |-> FALSE, new_arrival |-> FALSE,
     rating_average |-> <<0, 1>>, rating_count |-> 0]

RatedSamples ==
    {Plain, [Plain EXCEPT !.rating_average = <<9, 2>>, !.rating_count = 3]}

\* Identifier texts of reviews: as IdTexts, without the short one.
ReviewIdTexts == IdTexts \ {ShortId}

ReviewBodies == [fragrance_id : ReviewIdTexts, rating : {2, 5, 6}]

\* Most fragrance documents the review model holds.
MaxRated == 1

CreateRated ==
    /\ Len(fragrance) < MaxRated
    /\ \E body \in RatedSamples : create_fragrance(body)
    /\ UNCHANGED <<inflight, calls, tog>>

\* calls records every call the schema let through and how it ended.
AddReview ==
    /\ Len(review) < MaxReviews
    /\ \E body \in ReviewBodies :
          /\ add_review(body)
          /\ calls' = IF resp'.status = 422 THEN calls
                      ELSE Append(calls, [fragrance_id |-> body.fragrance_id,
                                          rating |-> body.rating,
                                          status |-> resp'.status])
    /\ UNCHANGED <<inflight, tog>>

GetReviews ==
    /\ \E fid \in ReviewIdTexts : get_reviews(fid)
    /\ UNCHANGED <<inflight, calls, tog>>

Next == CreateRated \/ AddReview \/ GetReviews

Spec == Init /\ [][Next]_vars

RatingsOfCalls(cs) == [i \in 1..Len(cs) |-> cs[i].rating]

Count(seq, v) == Cardinality({i \in 1..Len(seq) : seq[i] = v})

\* C1: after N >= 1 add_review calls, none overlapping, that all name the
\* same existing fragrance by a valid id, that fragrance's rating_average
\* is the mean of their ratings and its rating_count is N.
C1_AggregateIsMeanOfCalls ==
    \A i \in 1..Len(fragrance) :
        LET cs == SelectSeq(calls, LAMBDA c : ValidOid(c.fragrance_id)
                                          /\ Lower(c.fragrance_id) = fragrance[i]._id)
            rs == RatingsOfCalls(cs) IN
        Len(cs) >= 1 =>
            /\ fragrance[i].rating_count = Len(cs)
            /\ fragrance[i].rating_average = Fraction(SumSeq(rs), Len(rs))

\* C2: get_reviews(fragrance_id) returns as many reviews as there were
\* earlier add_review calls for that fragrance_id that returned success,
\* with exactly the ratings those calls submitted.
C2_ReviewsAreSuccessfulCalls ==
    resp.op = "get_reviews" =>
        LET cs == SelectSeq(calls, LAMBDA c : c.fragrance_id = resp.fragrance_id
                                          /\ c.status = 200)
            got == [k \in 1..Len(resp.body) |-> resp.body[k].rating] IN
        /\ Len(resp.body) = Len(cs)
        /\ \A r \in RatingMin..RatingMax : Count(got, r) = Count(RatingsOfCalls(cs), r)

\* C2, amended: get_reviews(fragrance_id) returns as many reviews as there
\* were earlier add_review calls for that fragrance_id that passed the
\* schema, whether they returned success or failed with 400 at the
\* aggregate update, with exactly the ratings those calls submitted.
C2_ReviewsAreStoredCalls ==
    resp.op = "get_reviews" =>
        LET cs == SelectSeq(calls, LAMBDA c : c.fragrance_id = resp.fragrance_id)
            got == [k \in 1..Len(resp.body) |-> resp.body[k].rating] IN
        /\ Len(resp.body) = Len(cs)
        /\ \A k \in 1..Len(resp.body) : resp.body[k].fragrance_id = resp.fragrance_id
        /\ \A r \in RatingMin..RatingMax : Count(got, r) = Count(RatingsOfCalls(cs), r)

\* get_reviews answered, for a fragrance_id whose add_review call failed
\* with 400, the one review of that call, while a review of another
\* fragrance_id and another rating is stored too.
C2_Witness ==
    /\ resp.op = "get_reviews"
    /\ Len(resp.body) = 1
    /\ Len(review) = 2
    /\ \E i \in 1..Len(calls) :
          /\ calls[i].status = 400
          /\ calls[i].fragrance_id = resp.fragrance_id
          /\ calls[i].rating = resp.body[1].rating
    /\ \E k \in 1..Len(review) : review[k].rating # resp.body[1].rating

\* The reviews that reference fragrance document d: their fragrance_id parses
\* to its _id.
ReviewsOf(d) ==
    SelectSeq(review, LAMBDA r : ValidOid(r.fragrance_id) /\ Lower(r.fragrance_id) = d._id)

\* C4: a fragrance's rating_average and rating_count are always the mean
\* and the number of the reviews that reference it (0 and 0 without any);
\* no caller sets them.
C4_AggregateIsDerived ==
    \A i \in 1..Len(fragrance) :
        LET rs == RatingsOfCalls(ReviewsOf(fragrance[i])) IN
        /\ fragrance[i].rating_count = Len(rs)
        /\ fragrance[i].rating_average =
              IF rs = <<>> THEN <<0, 1>> ELSE Fraction(SumSeq(rs), Len(rs))

\* C8: add_review with a fragrance_id that is not a valid identifier fails
\* with 400, the review is stored all the same and stays visible to
\* get_reviews for that fragrance_id, and no fragrance document changes.
C8_InvalidIdStillStored ==
    [][/\ \A body \in ReviewBodies :
             (ValidReview(body) /\ ~ValidOid(body.fragrance_id) /\ add_review(body)) =>
                 /\ resp'.status = 400
                 /\ fragrance' = fragrance
                 /\ Len(review') = Len(review) + 1
                 /\ review'[Len(review')].fragrance_id = body.fragrance_id
                 /\ review'[Len(review')].rating = body.rating
       /\ \A i \in 1..Len(calls') :
             calls'[i].status = 400 =>
                 /\ ~ValidOid(calls'[i].fragrance_id)
                 /\ \E k \in 1..Len(review') :
                       /\ review'[k].fragrance_id = calls'[i].fragrance_id
                       /\ review'[k].rating = calls'[i].rating
                 /\ (resp'.op = "get_reviews"
                        /\ resp'.fragrance_id = calls'[i].fragrance_id) =>
                       \E k \in 1..Len(resp'.body) :
                           resp'.body[k].rating = calls'[i].rating]_vars

\* A call with a malformed fragrance_id has failed, a fragrance exists, and
\* get_reviews has just listed the stored review under that fragrance_id.
C8_Witness ==
    /\ resp.op = "get_reviews"
    /\ ~ValidOid(resp.fragrance_id)
    /\ resp.body # <<>>
    /\ fragrance # <<>>
    /\ \E i \in 1..Len(calls) :
          calls[i].status = 400 /\ calls[i].fragrance_id = resp.fragrance_id

\* ------------------------------------------------- concurrent add_review
\* Two requests, each one call of add_review, interleaved at the handler's
\* three store calls: the insert (line 149), the read of every review of the
\* fragrance_id (lines 152-153) and the update of the fragrance (line 156).
Requests == {1, 2}

insert_review(p, body) ==
    /\ pc[p] = "idle"
    /\ ValidReview(body)
    /\ review' = create_document(review, body)
    /\ nextId' = nextId + 1
    /\ target' = [target EXCEPT ![p] = body.fragrance_id]
    /\ pc' = [pc EXCEPT ![p] = "inserted"]
    /\ UNCHANGED <<fragrance, userprofile, resp, ratings>>

read_ratings(p) ==
    /\ pc[p] = "inserted"
    /\ ratings' = [ratings EXCEPT ![p] = ratings_of(review, target[p])]
    /\ pc' = [pc EXCEPT ![p] = "read"]
    /\ UNCHANGED <<store, resp, target>>

computed_afresh(p) == aggregate(ratings_of(review, target[p]))

\* line 155: the aggregate of the ratings this request read.
computed(p) == aggregate(ratings[p])

write_aggregate(p) ==
    LET o == oid(target[p]) IN
    /\ pc[p] = "read"
    /\ IF ratings[p] # <<>> /\ o.ok
       THEN fragrance' = update_one(fragrance, [_id |-> Eq(o.v)], computed(p))
       ELSE UNCHANGED fragrance
    /\ resp' = IF ratings[p] # <<>> /\ ~o.ok
               THEN [op |-> "add_review", status |-> 400, request |-> p,
                     fragrance_id |-> target[p]]
               ELSE [op |-> "add_review", status |-> 200, request |-> p,
                     fragrance_id |-> target[p]]
    /\ pc' = [pc EXCEPT ![p] = "done"]
    /\ UNCHANGED <<review, userprofile, nextId, ratings, target>>

InsertReview ==
    /\ \E p \in Requests, body \in ReviewBodies : insert_review(p, body)
    /\ UNCHANGED <<calls, tog>>

ReadRatings ==
    /\ \E p \in Requests : read_ratings(p)
    /\ UNCHANGED <<calls, tog>>

WriteAggregate ==
    /\ \E p \in Requests : write_aggregate(p)
    /\ UNCHANGED <<calls, tog>>

NextRace == CreateRated \/ InsertReview \/ ReadRatings \/ WriteAggregate

SpecRace == Init /\ [][NextRace]_vars

\* Both requests are done and both were for the first fragrance, by its id
\* as the store wrote it.
BothDoneOnFirst ==
    /\ \A p \in Requests : pc[p] = "done"
    /\ fragrance # <<>>
    /\ \A p \in Requests : target[p] = fragrance[1]._id

\* C10: two concurrent add_review calls for one fragrance can finish with a
\* rating_count other than the number of stored reviews: the count left is
\* the one the request that wrote last had read, however many reviews were
\* stored by then.
C10_LastWriterCountStands ==
    (BothDoneOnFirst /\ resp.op = "add_review") =>
        /\ fragrance[1].rating_count = Len(ratings[resp.request])
        /\ fragrance[1].rating_count \in {1, 2}
        /\ Len(ratings_of(review, fragrance[1]._id)) = 2

\* Both requests are done, two reviews of the fragrance are stored and its
\* rating_count is 1.
C10_Witness ==
    /\ BothDoneOnFirst
    /\ Len(review) = 2
    /\ fragrance[1].rating_count = 1

\* ------------------------------------------------------- users and favorites
Emails == {"u1", "u2"}
FavIds == {"f1", "f2"}

RECURSIVE SeqsUpTo(_, _)
SeqsUpTo(S, n) ==
    IF n = 0 THEN {<<>>}
    ELSE LET shorter == SeqsUpTo(S, n - 1) IN
         shorter \cup {Append(s, x) : s \in {t \in shorter : Len(t) = n - 1}, x \in S}

\* UserProfile as validated by the schema: every field present.
\* UserProfile bodies as the schema validates them: every field present,
\* name and avatar_url None when not submitted, favorites [] by default.
NameAvatar == {<<None, None>>, <<"Ann", "pic">>}
FavInputs == {<<>>, <<"f1">>, <<"f2", "f1">>}

Profiles ==
    {[email |-> e, name |-> na[1], avatar_url |-> na[2], favorites |-> f] :
        e \in Emails, na \in NameAvatar, f \in FavInputs}

\* The same, with every favorites list of up to MaxFavLen ids.
FavProfiles ==
    {[email |-> e, name |-> None, avatar_url |-> None, favorites |-> f] :
        e \in Emails, f \in SeqsUpTo(FavIds, MaxFavLen)}

\* list.remove(x): the first occurrence only.
RemoveFirst(s, x) ==
    LET k == CHOOSE i \in 1..Len(s) : s[i] = x /\ \A j \in 1..(i - 1) : s[j] # x IN
    SubSeq(s, 1, k - 1) \o SubSeq(s, k + 1, Len(s))

\* lines 205-208: remove one occurrence when present, else append.
toggled(favs, fragrance_id) ==
    IF fragrance_id \in Range(favs) THEN RemoveFirst(favs, fragrance_id)
    ELSE Append(favs, fragrance_id)

upserted_merge(existing, profile) ==
    [email |-> profile.email,
     name |-> IF profile.name = None THEN existing.name ELSE profile.name,
     avatar_url |-> profile.avatar_url,
     favorites |-> existing.favorites \o profile.favorites]

\* profile.model_dump() as the $set of the existing document.
upserted(existing, profile) ==
    [email |-> profile.email, name |-> profile.name,
     avatar_url |-> profile.avatar_url, favorites |-> profile.favorites]

upsert_user(profile) ==
    LET existing == find_one(userprofile, [email |-> Eq(profile.email)]) IN
    /\ IF existing # <<>>
       THEN /\ userprofile' = update_one(userprofile,
                                  [_id |-> Eq(existing[1]._id)],
                                  upserted(existing[1], profile))
            /\ resp' = [op |-> "upsert_user", status |-> 200, email |-> profile.email,
                        id |-> existing[1]._id]
            /\ UNCHANGED nextId
       ELSE /\ userprofile' = create_document(userprofile, profile)
            /\ resp' = [op |-> "upsert_user", status |-> 200, email |-> profile.email,
                        id |-> NewObjectId]
            /\ nextId' = nextId + 1
    /\ UNCHANGED <<fragrance, review>>

unknown_user_created(user_email, fragrance_id) ==
    /\ userprofile' = Append(userprofile,
           [_id |-> NewObjectId, email |-> user_email, name |-> None,
            avatar_url |-> None, favorites |-> <<fragrance_id>>])
    /\ nextId' = nextId + 1
    /\ resp' = [op |-> "toggle_favorite", status |-> 200, email |-> user_email,
                favorites |-> <<fragrance_id>>]

\* raise HTTPException(404, "User not found")
unknown_user(user_email, fragrance_id) ==
    /\ resp' = [op |-> "toggle_favorite", status |-> 404, email |-> user_email,
                favorites |-> <<>>]
    /\ UNCHANGED <<userprofile, nextId>>

toggle_favorite(user_email, fragrance_id) ==
    LET prof == find_one(userprofile, [email |-> Eq(user_email)]) IN
    /\ IF prof = <<>>
       THEN unknown_user(user_email, fragrance_id)
       ELSE LET favs == toggled(prof[1].favorites, fragrance_id) IN
            /\ userprofile' = update_one(userprofile, [_id |-> Eq(prof[1]._id)],
                                         [favorites |-> favs])
            /\ resp' = [op |-> "toggle_favorite", status |-> 200, email |-> user_email,
                        favorites |-> favs]
            /\ UNCHANGED nextId
    /\ UNCHANGED <<fragrance, review>>

get_favorites(user_email) ==
    LET prof == find_one(userprofile, [email |-> Eq(user_email)]) IN
    /\ resp' = [op |-> "get_favorites", status |-> 200, email |-> user_email,
                favorites |-> IF prof = <<>> THEN <<>> ELSE prof[1].favorites]
    /\ UNCHANGED store

FavoritesOf(e) ==
    LET prof == find_one(userprofile, [email |-> Eq(e)]) IN
    IF prof = <<>> THEN {} ELSE Range(prof[1].favorites)

\* History of back-to-back toggles: n counts the successful toggle_favorite
\* calls for the same email and id made in a row; before is the set of
\* favorites ahead of the first of them.
Toggled(e, x) ==
    IF resp'.status # 200 THEN [n |-> 0]
    ELSE IF tog.n = 1 /\ tog.email = e /\ tog.x = x
         THEN [n |-> 2, email |-> e, x |-> x, before |-> tog.before]
         ELSE [n |-> 1, email |-> e, x |-> x, before |-> FavoritesOf(e)]

UpsertUser ==
    /\ \E profile \in Profiles : upsert_user(profile)
    /\ UNCHANGED <<inflight, calls, tog>>

ToggleFavorite ==
    /\ \E e \in Emails, x \in FavIds : toggle_favorite(e, x)
    /\ UNCHANGED <<inflight, calls, tog>>

GetFavorites ==
    /\ \E e \in Emails : get_favorites(e)
    /\ UNCHANGED <<inflight, calls, tog>>

NextUsers == UpsertUser \/ ToggleFavorite \/ GetFavorites

SpecUsers == Init /\ [][NextUsers]_vars

\* The same three operations with the history of back-to-back toggles kept.
UpsertFavorites ==
    /\ \E profile \in FavProfiles : upsert_user(profile)
    /\ tog' = [n |-> 0]
    /\ UNCHANGED <<inflight, calls>>

ToggleTracked ==
    /\ \E e \in Emails, x \in FavIds : toggle_favorite(e, x) /\ tog' = Toggled(e, x)
    /\ UNCHANGED <<inflight, calls>>

GetTracked ==
    /\ \E e \in Emails : get_favorites(e)
    /\ tog' = [n |-> 0]
    /\ UNCHANGED <<inflight, calls>>

NextFavorites == UpsertFavorites \/ ToggleTracked \/ GetTracked

SpecFavorites == Init /\ [][NextFavorites]_vars

\* C3: toggle_favorite(email, X) called twice in a row leaves the set of
\* favorites of that profile equal to the set before the first call, for
\* every favorites list reachable through upsert_user and toggle_favorite.
C3_ToggleTwiceRestoresSet == tog.n = 2 => FavoritesOf(tog.email) = tog.before

\* C5: upsert_user with a stored email creates no document, answers the
\* existing id and leaves that document's name, avatar_url and favorites
\* equal to the submitted values; with a new email it inserts one document
\* and answers its new id.
C5_UpsertStep(profile) ==
    LET olds == {i \in 1..Len(userprofile) : userprofile[i].email = profile.email} IN
    IF olds # {}
    THEN /\ Len(userprofile') = Len(userprofile)
         /\ \A i \in 1..Len(userprofile) :
               IF i \in olds
               THEN /\ userprofile'[i]._id = userprofile[i]._id
                    /\ resp'.id = userprofile[i]._id
                    /\ userprofile'[i].email = profile.email
                    /\ userprofile'[i].name = profile.name
                    /\ userprofile'[i].avatar_url = profile.avatar_url
                    /\ userprofile'[i].favorites = profile.favorites
               ELSE userprofile'[i] = userprofile[i]
    ELSE /\ Len(userprofile') = Len(userprofile) + 1
         /\ SubSeq(userprofile', 1, Len(userprofile)) = userprofile
         /\ LET d == userprofile'[Len(userprofile')] IN
               /\ d._id = resp'.id
               /\ \A i \in 1..Len(userprofile) : userprofile[i]._id # d._id
               /\ d.email = profile.email
               /\ d.name = profile.name
               /\ d.avatar_url = profile.avatar_url
               /\ d.favorites = profile.favorites

C5_UpsertReplaces ==
    [][\A profile \in Profiles :
          upsert_user(profile) => resp'.status = 200 /\ C5_UpsertStep(profile)]_vars

\* A profile with favorites was replaced by a submission without any: the
\* last response is an upsert answering the id of the first of two stored
\* profiles, whose favorites are now empty and whose name is unset.
C5_Witness ==
    /\ resp.op = "upsert_user"
    /\ Len(userprofile) = 2
    /\ resp.id = userprofile[1]._id
    /\ userprofile[1].favorites = <<>>
    /\ userprofile[1].name = None
    /\ userprofile[2].favorites # <<>>

\* C6: for an email with no stored profile, get_favorites answers an empty
\* sequence without error, toggle_favorite answers 404, and neither creates
\* a profile or changes a stored document.
C6_UnknownEmail ==
    [][\A e \in Emails :
          (\A i \in 1..Len(userprofile) : userprofile[i].email # e) =>
              /\ get_favorites(e) =>
                    resp'.status = 200 /\ resp'.favorites = <<>> /\ UNCHANGED store
              /\ \A x \in FavIds :
                    toggle_favorite(e, x) => resp'.status = 404 /\ UNCHANGED store]_vars

\* toggle_favorite has just answered 404 while another profile is stored.
C6_Witness ==
    /\ resp.op = "toggle_favorite"
    /\ resp.status = 404
    /\ Len(userprofile) = 1
    /\ userprofile[1].email # resp.email

====
